---------------------------- MODULE Spec2Model ----------------------------
(***************************************************************************)
(* Star Factory: the stellar evolution engine (computeInitialStar,         *)
(* computeEvolutionTimeline, getStarStateAtTime) as a state machine.       *)
(*                                                                         *)
(* NUMBERS.  The engine computes in IEEE doubles; TLC computes in 32-bit  *)
(* integers.  Two representations are used, each named where it applies:  *)
(*                                                                         *)
(*   lin   a fixed-point number, value * U with U = 10^6 (mass is kept in *)
(*         hundredths of a solar mass, metallicity in units of 10^-4,    *)
(*         cnoFraction in hundredths, Kelvin targets in milli-Kelvin,     *)
(*         times in hundredths of a Myr);                                 *)
(*   lg    a positive number held as its decimal logarithm in micro-dex   *)
(*         (log10(value) * 10^6).  Luminosity, radius and temperature     *)
(*         span 13 decades and are held this way: a product is a sum,     *)
(*         Math.pow(x, e) is a scaling, Math.pow(10, x) and Math.log10    *)
(*         are the change of reading between the two.                     *)
(*                                                                         *)
(* Log10Lin and Exp10Lin convert between the two by shift-and-add, exact   *)
(* to about one micro-dex; sums are always taken on lin values, as the    *)
(* code takes them.                                                       *)
(***************************************************************************)
EXTENDS Integers, Sequences, FiniteSets, TLC

U == 10^6            \* one, as a lin number
Dex == 10^6          \* one decade, as an lg number
Mant == 10^8         \* one, as a mantissa of the log/exp algorithm
MantTop == 10^9      \* ten, as a mantissa

Abs(a) == IF a < 0 THEN -a ELSE a
Sgn(a) == IF a < 0 THEN -1 ELSE 1
Max(a, b) == IF a >= b THEN a ELSE b
Min(a, b) == IF a <= b THEN a ELSE b

\* With(v, F) is F(v) with v computed first and once: the code's
\* "const x = v" before a block that reads x many times.
With(v, F(_)) == CHOOSE r \in { F(x) : x \in {v} } : TRUE

\* The arithmetic below is written as functions, not operators: a function
\* is applied to the value of its argument, so a recursion takes one step per
\* level however its body uses the argument.

\* a / b rounded to the nearest integer (b > 0)
RoundDiv(a, b) == (a + b \div 2) \div b

\* |a| * |b| / 10^6 by three-digit limbs, so that no partial product overflows
MulFixAbs[a \in Nat, b \in Nat] ==
  LET a1 == a \div 1000
      a0 == a % 1000
      b1 == b \div 1000
      b0 == b % 1000
      s  == a1 * b0 + a0 * b1
  IN  a1 * b1 + s \div 1000 + ((s % 1000) * 1000 + a0 * b0 + 500000) \div 1000000

\* the product of two numbers of which one is lin: a * b / U
MulFixInt[a \in Int, b \in Int] == Sgn(a) * Sgn(b) * MulFixAbs[Abs(a), Abs(b)]

MulFix(a, b) == MulFixInt[a, b]

\* long division: the digits of r / b (0 <= r < b) after the point
DivDigits[r \in Nat, b \in Nat, n \in Nat, acc \in Nat] ==
  IF n = 0 THEN acc
  ELSE DivDigits[(r * 10) % b, b, n - 1, acc * 10 + (r * 10) \div b]

\* the quotient of two numbers of the same scale, as a lin number: a * U / b
DivFixInt[a \in Int, b \in Int] ==
  Sgn(a) * Sgn(b) * ((Abs(a) \div Abs(b)) * U + DivDigits[Abs(a) % Abs(b), Abs(b), 6, 0])

DivFix(a, b) == DivFixInt[a, b]

\* x * n / d for an lg number x and a small rational exponent n / d
ScaleInt[x \in Int, n \in Int, d \in Nat] == Sgn(x) * Sgn(n) * RoundDiv(Abs(x) * Abs(n), d)

Scale(x, n, d) == ScaleInt[x, n, d]

\* log10(1 + 2^-k) * 10^8 for k = 0 .. 12
LogTab ==
  << 30103000, 17609126, 9691001, 5115252, 2632894, 1336396, 673338,
     337974, 169316, 84740, 42391, 21201, 10602 >>
LogSteps == Len(LogTab) - 1

\* log10(MantTop / y) * 10^8 for a mantissa y in [Mant, MantTop]: multiply y
\* towards ten by factors (1 + 2^-k), summing their logarithms
LogNorm[y \in Nat, k \in Nat, acc \in Nat] ==
  IF k > LogSteps THEN acc + ((MantTop - y) * 1000) \div 23026
  ELSE IF y + y \div (2^k) <= MantTop
       THEN LogNorm[y + y \div (2^k), IF k = 0 THEN 0 ELSE k + 1, acc + LogTab[k + 1]]
       ELSE LogNorm[y, k + 1, acc]

\* bring x > 0 into [Mant, MantTop), counting the decimal shifts
Normalise[y \in Nat, j \in Int] ==
  IF y < Mant THEN Normalise[y * 10, j + 1]
  ELSE IF y >= MantTop THEN Normalise[y \div 10, j - 1]
  ELSE << y, j >>

\* the lg number of a normalised mantissa n[1] with n[2] shifts, scale 10^p
LogOfNorm[n \in Nat \X Int, p \in Int] ==
  RoundDiv(Mant - LogNorm[n[1], 0, 0], 100) + (8 - n[2] - p) * Dex

\* Math.log10 of the number x / 10^p (x > 0), as an lg number
Log10Lin(x, p) == LogOfNorm[Normalise[x, 0], p]

\* 10^(r / 10^8) as a mantissa, for r in [0, 10^8)
ExpNorm[y \in Nat, k \in Nat, r \in Nat] ==
  IF k > LogSteps
  THEN y + ((y \div 100000) * ((r * 23026) \div 10000)) \div 1000
  ELSE IF r >= LogTab[k + 1]
       THEN ExpNorm[y + y \div (2^k), IF k = 0 THEN 0 ELSE k + 1, r - LogTab[k + 1]]
       ELSE ExpNorm[y, k + 1, r]

\* the mantissa y shifted by e decimal places
ShiftMant[y \in Nat, e \in Int] ==
  IF e >= 0 THEN y * 10^e ELSE IF e < -10 THEN 0 ELSE RoundDiv(y, 10^(-e))

\* Math.pow(10, l / 10^6) as a number of scale 10^p
Exp10Int[l \in Int, p \in Int] ==
  ShiftMant[ExpNorm[Mant, 0, (l - (l \div Dex) * Dex) * 100], l \div Dex + p - 8]

Exp10Lin(l, p) == Exp10Int[l, p]

\* lg of a lin number and lin of an lg number
Lg(x) == Log10Lin(x, 6)
Lin(l) == Exp10Lin(l, 6)

(***************************************************************************)
(* starEngine.ts: the initial main-sequence state.                         *)
(* StarParams here: mass in hundredths of a solar mass, metallicity in    *)
(* units of 10^-4, cnoFraction in hundredths.  In InitialStarState the    *)
(* composition (X, Y, Z, Z_cno, Z_other) is lin; L_ms, R_ms, T_eff, logL  *)
(* and logT are lg.                                                       *)
(***************************************************************************)
T_sun == 5772
Z_sun == 200

clamp(x, lo, hi) == Min(Max(x, lo), hi)

\* Math.pow(T_sun, 1) as an lg number
LgT_sun == Log10Lin(T_sun, 0)

\* L_ms_base: the three-segment mass-luminosity power law (lg), logM = lg of M
L_ms_base(M, logM) ==
  IF M < 50 THEN Scale(logM, 23, 10)
  ELSE IF M < 200 THEN Scale(logM, 40, 10)
  ELSE Scale(logM, 35, 10)

\* Z / Z_sun clamped to [0.1, 3.0], lin
Z_relOf(Z) == IF Z_sun > 0 THEN clamp(DivFix(Z, Z_sun), 100000, 3000000) ELSE U

\* the CNO boosts for M > 1.3: << L_cnoBoost, T_cnoBoost >>, lin
cnoBoost(M, fCNO) ==
  LET massWeight == clamp(DivFix(M - 130, 500 - 130), 0, U)
      deltaCNO   == (fCNO - 30) * 10000
  IN  << U + MulFix(MulFix(400000, deltaCNO), massWeight),
         U + MulFix(MulFix(150000, deltaCNO), massWeight) >>

\* variant: the enrichment slope dY/dZ taken as 1.5
heliumYLowSlope(Z) == clamp(248000 + 150 * Z, 220000, 400000)

\* the helium enrichment law, clamped
heliumY(Z) == clamp(248000 + 170 * Z, 220000, 400000)

\* variant: hydrogen taken as what helium leaves, the metals forgotten
hydrogenXOfY(Y, Z) == Max(0, U - Y)

\* hydrogen is what is left
hydrogenX(Y, Z) == Max(0, U - Y - 100 * Z)

\* variant: the CNO correction applied at every mass, with full weight
computeInitialStarCnoAtAllMasses(params) ==
  LET M       == clamp(params.mass, 10, 5000)
      Z       == clamp(params.metallicity, 0, 400)
      fCNO    == clamp(params.cnoFraction, 0, 100)
      logM    == Log10Lin(M, 2)
      R_ms    == Scale(logM, 8, 10)
      lgZ_rel == Lg(Z_relOf(Z))
      L_Z     == L_ms_base(M, logM) + Scale(lgZ_rel, -25, 100)
      T_Z     == LgT_sun + Scale(L_Z - 2 * R_ms, 25, 100) + Scale(lgZ_rel, -10, 100)
      L_ms    == L_Z + Lg(U + MulFix(400000, (fCNO - 30) * 10000))
      T_eff   == T_Z + Lg(U + MulFix(150000, (fCNO - 30) * 10000))
  IN  [ X |-> hydrogenX(heliumY(Z), Z), Y |-> heliumY(Z), Z |-> 100 * Z,
        Z_cno |-> Z * fCNO, Z_other |-> Z * (100 - fCNO),
        L_ms |-> L_ms, R_ms |-> R_ms, T_eff |-> T_eff,
        logL |-> L_ms, logT |-> T_eff ]

computeInitialStar(params) ==
  LET M       == clamp(params.mass, 10, 5000)
      Z       == clamp(params.metallicity, 0, 400)
      fCNO    == clamp(params.cnoFraction, 0, 100)
      Z_cno   == Z * fCNO
      Z_other == Z * (100 - fCNO)
      Y       == heliumY(Z)
      X       == hydrogenX(Y, Z)
      logM    == Log10Lin(M, 2)
      R_ms    == Scale(logM, 8, 10)
      lgZ_rel == Lg(Z_relOf(Z))
      L_Z     == L_ms_base(M, logM) + Scale(lgZ_rel, -25, 100)
      T_base  == LgT_sun + Scale(L_Z - 2 * R_ms, 25, 100)
      T_Z     == T_base + Scale(lgZ_rel, -10, 100)
      boost   == cnoBoost(M, fCNO)
      L_ms    == IF M > 130 THEN L_Z + Lg(boost[1]) ELSE L_Z
      T_eff   == IF M > 130 THEN T_Z + Lg(boost[2]) ELSE T_Z
  IN  [ X |-> X, Y |-> Y, Z |-> 100 * Z, Z_cno |-> Z_cno, Z_other |-> Z_other,
        L_ms |-> L_ms, R_ms |-> R_ms, T_eff |-> T_eff,
        logL |-> L_ms, logT |-> T_eff ]

(***************************************************************************)
(* starEvolutionEngine.ts: the timeline.  Times are in hundredths of a    *)
(* Myr; fracStart and fracEnd are lin.                                    *)
(***************************************************************************)
clampMass(M) == Min(Max(M, 10), 5000)

\* variant: the lifetime is not capped at 200 Gyr
lifetimeNoCeiling(initial, params) ==
  LET M    == clampMass(params.mass)
      Z    == Min(Max(params.metallicity, 1), 400)
      tGyr == IF initial.X = 0 THEN 0
              ELSE Exp10Lin(Dex + Lg(DivFix(initial.X, 700000))
                            + (Log10Lin(M, 2) - Max(initial.L_ms, -4 * Dex))
                            + Scale(Lg(DivFix(Z, Z_sun)), 2, 10), 6)
  IN  Max(tGyr, 3000)

\* variant: the lifetime has no floor at 3 Myr
lifetimeNoFloor(initial, params) ==
  LET M    == clampMass(params.mass)
      Z    == Min(Max(params.metallicity, 1), 400)
      tGyr == IF initial.X = 0 THEN 0
              ELSE Exp10Lin(Dex + Lg(DivFix(initial.X, 700000))
                            + (Log10Lin(M, 2) - Max(initial.L_ms, -4 * Dex))
                            + Scale(Lg(DivFix(Z, Z_sun)), 2, 10), 6)
  IN  Min(tGyr, 200 * U)

\* the main-sequence lifetime in Gyr, lin
mainSequenceLifetimeGyrFromInitial(initial, params) ==
  LET M              == clampMass(params.mass)
      Z              == Min(Max(params.metallicity, 1), 400)
      X              == initial.X
      L_ms           == Max(initial.L_ms, -4 * Dex)
      fuelFactor     == DivFix(X, 700000)
      burnRateFactor == L_ms - 0
      massFactor     == Log10Lin(M, 2)
      Zrel           == IF Z_sun > 0 THEN DivFix(Z, Z_sun) ELSE U
      tGyr           == IF fuelFactor = 0 THEN 0
                        ELSE Exp10Lin(Dex + Lg(fuelFactor) + (massFactor - burnRateFactor)
                                      + Scale(Lg(Zrel), 2, 10), 6)
  IN  Min(Max(tGyr, 3000), 200 * U)

\* variant: the lower threshold taken inclusively
remnantOfInclusive(M) == IF M <= 800 THEN "wd" ELSE IF M < 2500 THEN "ns" ELSE "bh"

\* the fate of the star from its clamped mass
remnantOf(M) == IF M < 800 THEN "wd" ELSE IF M < 2500 THEN "ns" ELSE "bh"

\* variant: the terminal phase is always the white-dwarf one
finalPhaseAlwaysWd(remnant) == [id |-> "wdFinal", label |-> "White dwarf cooling"]

\* the id and label of the terminal phase
finalPhaseOf(remnant) ==
  IF remnant = "wd" THEN [id |-> "wdFinal", label |-> "White dwarf cooling"]
  ELSE IF remnant = "ns" THEN [id |-> "nsFinal", label |-> "Neutron star cooling"]
  ELSE [id |-> "bhFinal", label |-> "Black hole remnant"]

\* variant: rgb and hb listed in the wrong order
orderedBaseSwapped ==
  << [id |-> "ms",       label |-> "Main sequence"],
     [id |-> "subgiant", label |-> "Subgiant"],
     [id |-> "hb",       label |-> "Helium burning"],
     [id |-> "rgb",      label |-> "Red giant branch"],
     [id |-> "agb",      label |-> "Asymptotic giant branch"] >>

orderedBase ==
  << [id |-> "ms",       label |-> "Main sequence"],
     [id |-> "subgiant", label |-> "Subgiant"],
     [id |-> "rgb",      label |-> "Red giant branch"],
     [id |-> "hb",       label |-> "Helium burning"],
     [id |-> "agb",      label |-> "Asymptotic giant branch"] >>

\* the normalised log-mass over 0.5 .. 50, lin
uStructOf(M) ==
  LET Mstruct      == Min(Max(M, 50), 5000)
      logMinStruct == Log10Lin(50, 2)
      logMaxStruct == Log10Lin(5000, 2)
  IN  Min(Max(DivFix(Log10Lin(Mstruct, 2) - logMinStruct,
                     logMaxStruct - logMinStruct), 0), U)

\* the raw fractions << fSub, fRGB, fHB, fAGB >> at uStruct
rawFractions(uStruct) ==
  << 50000 + MulFix(10000 - 50000, uStruct),
     100000 + MulFix(15000 - 100000, uStruct),
     100000 + MulFix(20000 - 100000, uStruct),
     20000 + MulFix(5000 - 20000, uStruct) >>

\* the target post-main-sequence fraction at uStruct
targetPostFracOf(uStruct) == 270000 + MulFix(150000 - 270000, uStruct)

\* variant: the raw fractions are used without the rescaling
durationsOfNoRescale(M, tMsMyr) ==
  LET f == rawFractions(uStructOf(M))
  IN  << tMsMyr, MulFix(f[1], tMsMyr), MulFix(f[2], tMsMyr), MulFix(f[3], tMsMyr),
         MulFix(f[4], tMsMyr),
         Min(MulFix(10 * tMsMyr, Lin(Scale(Log10Lin(M, 2), -7, 10))), 5 * tMsMyr) >>

\* variant: the cooling duration capped at 6 instead of 5 main-sequence lifetimes
durationsOfCapSix(M, tMsMyr) ==
  LET f     == rawFractions(uStructOf(M))
      scale == DivFix(targetPostFracOf(uStructOf(M)), f[1] + f[2] + f[3] + f[4])
  IN  << tMsMyr,
         MulFix(MulFix(f[1], scale), tMsMyr), MulFix(MulFix(f[2], scale), tMsMyr),
         MulFix(MulFix(f[3], scale), tMsMyr), MulFix(MulFix(f[4], scale), tMsMyr),
         Min(MulFix(10 * tMsMyr, Lin(Scale(Log10Lin(M, 2), -7, 10))), 6 * tMsMyr) >>

\* the six durations << ms, subgiant, rgb, hb, agb, wd >> in hundredths of a Myr
durationsOf(M, tMsMyr) ==
  LET Mstruct        == Min(Max(M, 50), 5000)
      logMinStruct   == Log10Lin(50, 2)
      logMaxStruct   == Log10Lin(5000, 2)
      uStruct        == Min(Max(DivFix(Log10Lin(Mstruct, 2) - logMinStruct,
                                       logMaxStruct - logMinStruct), 0), U)
      lerpU(low, high) == low + MulFix(high - low, uStruct)
      fSub           == lerpU(50000, 10000)
      fRGB           == lerpU(100000, 15000)
      fHB            == lerpU(100000, 20000)
      fAGB           == lerpU(20000, 5000)
      rawPostSum     == fSub + fRGB + fHB + fAGB
      targetPostFrac == lerpU(270000, 150000)
      scale          == DivFix(targetPostFrac, rawPostSum)
      rawWD          == MulFix(10 * tMsMyr, Lin(Scale(Log10Lin(M, 2), -7, 10)))
      tWD            == Min(rawWD, 5 * tMsMyr)
  IN  << tMsMyr,
         MulFix(MulFix(fSub, scale), tMsMyr),
         MulFix(MulFix(fRGB, scale), tMsMyr),
         MulFix(MulFix(fHB, scale), tMsMyr),
         MulFix(MulFix(fAGB, scale), tMsMyr),
         tWD >>

\* Object.values(durations).reduce((sum, t) => sum + t, 0)
RECURSIVE SumFrom(_, _, _)
SumFrom(durations, i, sum) ==
  IF i > Len(durations) THEN sum ELSE SumFrom(durations, i + 1, sum + durations[i])

\* variant: the reduce starts from the main-sequence duration instead of 0
totalOfTwiceMs(durations) == SumFrom(durations, 1, durations[1])

totalOf(durations) == SumFrom(durations, 1, 0)

\* variant: every phase starts at 0, the cursor is not read
phaseAtFromZero(entry, cursor, dt, totalLifetimeMyr) ==
  [ id |-> entry.id, label |-> entry.label,
    tStartMyr |-> 0, tEndMyr |-> cursor + dt, durationMyr |-> dt,
    fracStart |-> 0, fracEnd |-> DivFix(cursor + dt, totalLifetimeMyr) ]

\* one phases.push: the phase that starts at the cursor and lasts dt
phaseAt(entry, cursor, dt, totalLifetimeMyr) ==
  LET tStart == cursor
      tEnd   == cursor + dt
  IN  [ id |-> entry.id, label |-> entry.label,
        tStartMyr |-> tStart, tEndMyr |-> tEnd, durationMyr |-> dt,
        fracStart |-> DivFix(tStart, totalLifetimeMyr),
        fracEnd |-> DivFix(tEnd, totalLifetimeMyr) ]

\* the loop over orderedBase and the terminal push: entries[i] lasts durations[i]
RECURSIVE layOut(_, _, _, _, _, _)
layOut(entries, durations, i, cursor, totalLifetimeMyr, phases) ==
  IF i > Len(entries) THEN phases
  ELSE With(phaseAt(entries[i], cursor, durations[i], totalLifetimeMyr),
            LAMBDA ph : layOut(entries, durations, i + 1, ph.tEndMyr,
                               totalLifetimeMyr, Append(phases, ph)))

\* the timeline from the clamped mass, the initial state and the durations
timelineOf(remnant, initial, durations) ==
  With(totalOf(durations), LAMBDA totalLifetimeMyr :
    [ totalLifetimeMyr |-> totalLifetimeMyr,
      phases |-> layOut(Append(orderedBase, finalPhaseOf(remnant)), durations,
                        1, 0, totalLifetimeMyr, << >>),
      initial |-> initial, remnant |-> remnant ])

\* the main-sequence lifetime in hundredths of a Myr
tMsMyrOf(initial, params) ==
  RoundDiv(mainSequenceLifetimeGyrFromInitial(initial, params), 10)

computeEvolutionTimeline(params) ==
  LET M       == clampMass(params.mass)
      remnant == remnantOf(M)
  IN  With(computeInitialStar(params), LAMBDA initial :
        With(tMsMyrOf(initial, params), LAMBDA tMsMyr :
          With(durationsOf(M, tMsMyr), LAMBDA durations :
            timelineOf(remnant, initial, durations))))

(***************************************************************************)
(* starEvolutionCurves.ts: keypoints and the sampler.  A StatePoint holds *)
(* L, R and T_eff as lg numbers; phaseFrac and fracTotal are lin.         *)
(***************************************************************************)
\* a + (b - a) * t on lin numbers
lerp(a, b, t) == a + MulFix(b - a, t)

\* a + (b - a) * t on lg numbers a, b with t lin: the sum is taken on the
\* values themselves, read relative to the larger of the two
lerpLg(a, b, t) ==
  LET hi == Max(a, b)
      va == Exp10Lin(a - hi, 9)
      vb == Exp10Lin(b - hi, 9)
  IN  hi + Log10Lin(va + MulFix(vb - va, t), 9)

\* variant: the fraction is not clamped to [0, 1]
rawPhaseFraction(phase, tMyr) ==
  IF phase.tEndMyr - phase.tStartMyr <= 0 THEN 0
  ELSE DivFix(tMyr - phase.tStartMyr, phase.tEndMyr - phase.tStartMyr)

safePhaseFraction(phase, tMyr) ==
  LET dt == phase.tEndMyr - phase.tStartMyr
  IN  IF dt <= 0 THEN 0 ELSE clamp(DivFix(tMyr - phase.tStartMyr, dt), 0, U)

\* variant: the exponent taken as 0.5
T_from_LR_Sqrt(L, R) == LgT_sun + Scale(L - (R + R), 5, 10)

\* T_sun * (L / R^2)^0.25
T_from_LR(L, R) == LgT_sun + Scale(L - (R + R), 25, 100)

\* sqrt(L) / (T / T_sun)^2
R_from_LT(L, T) ==
  LET x == T - LgT_sun
  IN  Scale(L, 5, 10) - (x + x)

StatePoint(L, R, T_eff) == [L |-> L, R |-> R, T_eff |-> T_eff]

\* variant: the Wolf-Rayet luminosity is not clamped to [5.2, 6.2]
coreCollapseEndNoClamp(remnant, logM, L_agb) ==
  IF remnant = "ns"
  THEN LET T_rsg == Log10Lin(clamp(3600000 + Scale(logM, 200, 1000),
                                   3400000, 4300000), 3)
       IN  StatePoint(Max(L_agb, 4500000), R_from_LT(Max(L_agb, 4500000), T_rsg), T_rsg)
  ELSE LET logL_wr == Max(L_agb, 4500000) + 300000
           T_wr    == Log10Lin(clamp(MulFix(50000000,
                                         Lin(Scale(logM - Log10Lin(25, 0), 15, 100))),
                                     40000000, 90000000), 3)
       IN  StatePoint(logL_wr, R_from_LT(logL_wr, T_wr), T_wr)

\* the final shape of a core-collapse progenitor (remnant ns or bh)
coreCollapseEnd(remnant, logM, L_agb) ==
  LET logL_agb  == L_agb
      logL_core == Max(logL_agb, 4500000)
      L_core    == logL_core
  IN  IF remnant = "ns"
      THEN LET T_rsg == Log10Lin(clamp(3600000 + Scale(logM, 200, 1000),
                                       3400000, 4300000), 3)
           IN  StatePoint(L_core, R_from_LT(L_core, T_rsg), T_rsg)
      ELSE LET logL_wr == clamp(Max(L_agb, 4500000) + 300000, 5200000, 6200000)
               T_wr    == Log10Lin(clamp(MulFix(50000000,
                                             Lin(Scale(logM - Log10Lin(25, 0), 15, 100))),
                                         40000000, 90000000), 3)
           IN  StatePoint(logL_wr, R_from_LT(logL_wr, T_wr), T_wr)

\* the white-dwarf cooling track << wdStart, wdEnd >>
wdTrack(logM, L0, lgZrel) ==
  LET R_wd      == Log10Lin(15, 3) + Scale(logM, -2, 10)
      L_wdStart == L0 + clamp(Log10Lin(8, 2) + Scale(logM, 7, 10),
                              Log10Lin(2, 2), Log10Lin(3, 1))
      T_wdStart == Log10Lin(25000, 0) + Scale(logM, 5, 100)
      L_wdEnd   == L0 + clamp(Log10Lin(2, 4) + Scale(logM, 3, 10),
                              Log10Lin(5, 5), Log10Lin(5, 4))
      T_wdEnd   == Log10Lin(4500, 0) + Scale(lgZrel, -5, 100)
  IN  << StatePoint(L_wdStart, R_wd, T_wdStart), StatePoint(L_wdEnd, R_wd, T_wdEnd) >>

\* the start of the final shape
finalStart(remnant, agbEnd, wdStart) == IF remnant # "wd" THEN agbEnd ELSE wdStart

\* the keypoint table from logM = lg of the clamped mass and Zrel = lg of
\* the clamped relative metallicity
shapesOf(logM, Zrel, initial, remnant) ==
  LET L0      == initial.L_ms
      R0      == initial.R_ms
      T0      == initial.T_eff
      logL_ms == initial.logL
      \* 1) main sequence
      msBrightening  == clamp(MulFix(300000, Lin(Scale(-logM, 3, 10))), 50000, 400000)
      msRadiusGrowth == clamp(MulFix(150000, Lin(Scale(-logM, 2, 10))), 30000, 200000)
      msStart == StatePoint(L0, R0, T0)
      L_msEnd == L0 + Lg(U + msBrightening)
      R_msEnd == R0 + Lg(U + msRadiusGrowth)
      T_msEnd == T_from_LR(L_msEnd, R_msEnd) + Scale(Zrel, -3, 100)
      msEnd   == StatePoint(L_msEnd, R_msEnd, T_msEnd)
      \* 2) subgiant
      sgLFactor == 1500000 + MulFix(U, Lin(Scale(logM, 3, 10)))
      sgRFactor == 3000000 + MulFix(2000000, Lin(Scale(logM, 2, 10)))
      L_sgEnd == L_msEnd + Lg(sgLFactor)
      R_sgEnd == R_msEnd + Lg(sgRFactor)
      T_sgEnd == T_from_LR(L_sgEnd, R_sgEnd) + Scale(Zrel, -5, 100)
      sgEnd   == StatePoint(L_sgEnd, R_sgEnd, T_sgEnd)
      \* 3) red-giant branch
      rgbRFactor   == Log10Lin(50, 0) + Scale(logM, 6, 10)
      logL_rgbRaw  == 4000000 + Scale(logM, 13, 10)
      logL_rgbTip  == clamp(logL_rgbRaw, logL_ms + 800000, 5800000)
      L_rgbTip     == logL_rgbTip
      R_rgbTip     == R0 + rgbRFactor
      T_rgbNominal == clamp(4100000 - Scale(logM, 400, 1000), 3400000, 4600000)
      T_rgbTip     == Log10Lin(T_rgbNominal, 3) + Scale(Zrel, -5, 100)
      rgbEnd  == StatePoint(L_rgbTip, R_rgbTip, T_rgbTip)
      \* 4) core helium burning
      L_hb  == L_rgbTip + Lg(clamp(250000 + MulFix(150000, Lin(Scale(logM, -3, 10))),
                                   200000, 500000))
      R_hb  == R_rgbTip + Lg(clamp(150000 + MulFix(100000, Lin(Scale(logM, -2, 10))),
                                   80000, 250000))
      T_hb  == T_from_LR(L_hb, R_hb) + Scale(Zrel, -4, 100)
      hbEnd == StatePoint(L_hb, R_hb, T_hb)
      \* 5) AGB
      logL_agbRaw == logL_rgbTip + clamp(150000 + Scale(logM, 25, 100), 100000, 500000)
      logL_agb    == clamp(logL_agbRaw, logL_rgbTip + 50000, 6200000)
      L_agb       == logL_agb
      R_agb       == R_rgbTip + Lg(clamp(1300000 + MulFix(400000, Lin(Scale(logM, 2, 10))),
                                         1200000, 2200000))
      T_agbNominal == MulFix(T_rgbNominal, 900000)
      T_agb       == Log10Lin(T_agbNominal, 3) + Scale(Zrel, -5, 100)
      agbEnd == StatePoint(L_agb, R_agb, T_agb)
      \* 6) the final stage
      wd == wdTrack(logM, L0, Zrel)
      \* the table, one entry per shape key
  IN  [ key \in {"ms", "subgiant", "rgb", "hb", "agb", "wd"} |->
          CASE key = "ms"       -> [start |-> msStart, end |-> msEnd]
            [] key = "subgiant" -> [start |-> msEnd,   end |-> sgEnd]
            [] key = "rgb"      -> [start |-> sgEnd,   end |-> rgbEnd]
            [] key = "hb"       -> [start |-> rgbEnd,  end |-> hbEnd]
            [] key = "agb"      -> [start |-> hbEnd,   end |-> agbEnd]
            [] key = "wd"       -> [start |-> finalStart(remnant, agbEnd, wd[1]),
                                    end   |-> IF remnant # "wd"
                                              THEN coreCollapseEnd(remnant, logM, L_agb)
                                              ELSE wd[2]] ]

buildPhaseShapes(params, initial, remnant) ==
  LET M == clamp(params.mass, 10, 5000)
      Z == clamp(params.metallicity, 0, 400)
  IN  With(Log10Lin(M, 2), LAMBDA logM :
        With(Lg(Z_relOf(Z)), LAMBDA Zrel :
          shapesOf(logM, Zrel, initial, remnant)))

shapeKeyForPhase(id) ==
  IF id = "wdFinal" \/ id = "nsFinal" \/ id = "bhFinal" THEN "wd" ELSE id

\* variant: the query time is clamped from above only
clampTimeAbove(tMyrRaw, total) == Min(tMyrRaw, total)

\* the clamped query time
clampTime(tMyrRaw, total) == clamp(tMyrRaw, 0, total)

\* variant: the guard tests for zero only
fracTotalOfNonZero(tMyr, total) == IF total # 0 THEN DivFix(tMyr, total) ELSE 0

\* tMyr / total, guarded
fracTotalOf(tMyr, total) == IF total > 0 THEN DivFix(tMyr, total) ELSE 0

\* variant: the phase intervals taken half-open, [tStartMyr, tEndMyr)
RECURSIVE findActiveHalfOpen(_, _, _)
findActiveHalfOpen(phases, tMyr, i) ==
  IF i > Len(phases) THEN 0
  ELSE IF tMyr >= phases[i].tStartMyr /\ tMyr < phases[i].tEndMyr THEN i
  ELSE findActiveHalfOpen(phases, tMyr, i + 1)

\* the index of the first phase whose [tStartMyr, tEndMyr] contains tMyr, or 0
RECURSIVE findActive(_, _, _)
findActive(phases, tMyr, i) ==
  IF i > Len(phases) THEN 0
  ELSE IF tMyr >= phases[i].tStartMyr /\ tMyr <= phases[i].tEndMyr THEN i
  ELSE findActive(phases, tMyr, i + 1)

\* variant: the pin goes to the first phase
activeIndexFirst(phases, tMyr) ==
  IF findActive(phases, tMyr, 1) = 0 /\ Len(phases) > 0 THEN 1
  ELSE findActive(phases, tMyr, 1)

\* the index of the active phase after the pin to the last phase, or 0
activeIndex(phases, tMyr) ==
  LET found == findActive(phases, tMyr, 1)
  IN  IF found = 0 /\ Len(phases) > 0 THEN Len(phases) ELSE found

\* the state returned when there is no phase at all
fallbackState(initial, remnant) ==
  [ tMyr |-> 0, fracTotal |-> 0, phaseId |-> "ms", phaseLabel |-> "Main sequence",
    phaseFrac |-> 0, remnant |-> remnant,
    L |-> initial.L_ms, R |-> initial.R_ms, T_eff |-> initial.T_eff,
    logL |-> initial.logL, logT |-> initial.logT ]

\* variant: the arguments of the interpolation are swapped
pointOnSwapped(shape, phaseFrac) ==
  StatePoint(lerpLg(shape.end.L, shape.start.L, phaseFrac),
             lerpLg(shape.end.R, shape.start.R, phaseFrac),
             lerpLg(shape.end.T_eff, shape.start.T_eff, phaseFrac))

\* the state within a given active phase
\* the point of a shape at phaseFrac
pointOn(shape, phaseFrac) ==
  StatePoint(lerpLg(shape.start.L, shape.end.L, phaseFrac),
             lerpLg(shape.start.R, shape.end.R, phaseFrac),
             lerpLg(shape.start.T_eff, shape.end.T_eff, phaseFrac))

\* the state assembled from the interpolated point
stateOf(active, tMyr, fracTotal, phaseFrac, remnant, pt) ==
  [ tMyr |-> tMyr, fracTotal |-> fracTotal,
    phaseId |-> active.id, phaseLabel |-> active.label,
    phaseFrac |-> phaseFrac, remnant |-> remnant,
    L |-> pt.L, R |-> pt.R, T_eff |-> pt.T_eff,
    logL |-> Max(pt.L, -6 * Dex), logT |-> Max(pt.T_eff, Dex) ]

\* variant: the remnant is classified again from the mass
stateInPhaseByMass(params, initial, remnant, active, tMyr, fracTotal) ==
  With(safePhaseFraction(active, tMyr), LAMBDA phaseFrac :
    With(buildPhaseShapes(params, initial,
                          remnantOf(clampMass(params.mass)))[shapeKeyForPhase(active.id)],
         LAMBDA shape :
      With(pointOn(shape, phaseFrac), LAMBDA pt :
        stateOf(active, tMyr, fracTotal, phaseFrac,
                remnantOf(clampMass(params.mass)), pt))))

stateInPhase(params, initial, remnant, active, tMyr, fracTotal) ==
  With(safePhaseFraction(active, tMyr), LAMBDA phaseFrac :
    With(buildPhaseShapes(params, initial, remnant)[shapeKeyForPhase(active.id)],
         LAMBDA shape :
      With(pointOn(shape, phaseFrac), LAMBDA pt :
        stateOf(active, tMyr, fracTotal, phaseFrac, remnant, pt))))

getStarStateAtTime(params, timeline, tMyrRaw) ==
  LET remnant   == timeline.remnant
      total     == timeline.totalLifetimeMyr
      tMyr      == clampTime(tMyrRaw, total)
      fracTotal == fracTotalOf(tMyr, total)
      i         == activeIndex(timeline.phases, tMyr)
  IN  With(computeInitialStar(params), LAMBDA initial :
        IF i = 0 THEN fallbackState(initial, remnant)
        ELSE stateInPhase(params, initial, remnant, timeline.phases[i], tMyr, fracTotal))

(***************************************************************************)
(* The engine and its callers as a state machine.  App holds the star     *)
(* parameters and shows the initial state on the build screen; launching  *)
(* the simulation mounts SimulationRunner, which builds the timeline and  *)
(* samples it; a direct caller (a probe, a test) may instead pass a       *)
(* timeline of its own making.  Whoever holds the timeline sweeps the      *)
(* query time over a grid that reaches outside [0, totalLifetimeMyr].     *)
(***************************************************************************)
VARIABLES mode, params, initial, timeline, tQuery, state, runner, swipe

vars == << mode, params, initial, timeline, tQuery, state, runner, swipe >>

\* how many equal steps of each phase are sampled, and how far outside
\* [0, totalLifetimeMyr] the query time goes
NumFracSteps == 2
OverShoot == 2

\* slider values, with values outside the engine's clamps
Masses == {5, 10, 50, 100, 130, 200, 799, 800, 2499, 2500, 3000, 6000}
Metallicities == {0, 200, 400, 500}
CnoFractions == {0, 30, 150}

StarParams(m, z, c) == [mass |-> m, metallicity |-> z, cnoFraction |-> c]

\* App's initial params: mass 1.0, metallicity 0.02, cnoFraction 0.3
defaultParams == StarParams(100, 200, 30)

mkPhase(id, label, tStart, tEnd) ==
  [ id |-> id, label |-> label, tStartMyr |-> tStart, tEndMyr |-> tEnd,
    durationMyr |-> tEnd - tStart, fracStart |-> 0, fracEnd |-> 0 ]

mkTimeline(total, phases, init, remnant) ==
  [ totalLifetimeMyr |-> total, phases |-> phases, initial |-> init,
    remnant |-> remnant ]

\* what is held while no simulation is mounted
NoTimeline == mkTimeline(0, << >>, << >>, "none")
NoState ==
  [ tMyr |-> 0, fracTotal |-> 0, phaseId |-> "none", phaseLabel |-> "none",
    phaseFrac |-> 0, remnant |-> "none", L |-> 0, R |-> 0, T_eff |-> 0,
    logL |-> 0, logT |-> 0 ]

\* timelines a caller can hand to the sampler without the builder: no phases,
\* a gap between phases, a zero-length phase, an inverted phase, a zero or a
\* negative total, a remnant that is not the one of the mass
HandTimelines(init) ==
  { mkTimeline(0, << >>, init, "wd"),
    mkTimeline(1000, << >>, init, "bh"),
    mkTimeline(300, << mkPhase("ms", "Main sequence", 0, 100),
                       mkPhase("nsFinal", "Neutron star cooling", 200, 300) >>,
               init, "ns"),
    mkTimeline(0, << mkPhase("ms", "Main sequence", 0, 0) >>, init, "wd"),
    mkTimeline(-100, << mkPhase("ms", "Main sequence", 0, 100) >>, init, "wd"),
    mkTimeline(100, << mkPhase("agb", "Asymptotic giant branch", 100, 50),
                       mkPhase("bhFinal", "Black hole remnant", 150, 150) >>,
               init, "bh") }

PhaseTimes(ph) ==
  { ph.tStartMyr + (ph.durationMyr * k) \div NumFracSteps : k \in 0 .. NumFracSteps }
    \cup { ph.tEndMyr - 1, ph.tEndMyr + 1 }

\* the grid of query times for a timeline
QueryTimes(tl) ==
  { 0, tl.totalLifetimeMyr }
    \cup { -k : k \in 1 .. OverShoot }
    \cup { tl.totalLifetimeMyr + k : k \in 1 .. OverShoot }
    \cup UNION { PhaseTimes(tl.phases[i]) : i \in 1 .. Len(tl.phases) }

\* the state of SimulationRunner and of SwipeToActivate while the engine
\* alone is exercised
NoRunner == [mounted |-> FALSE]
NoSwipe == [mounted |-> FALSE]

Init ==
  /\ mode = "build"
  /\ params = defaultParams
  /\ initial = computeInitialStar(defaultParams)
  /\ timeline = NoTimeline
  /\ tQuery = 0
  /\ state = NoState
  /\ runner = NoRunner
  /\ swipe = NoSwipe

\* App.updateParam from the build screen: one slider moves and the screen
\* shows the new initial state
updateParam ==
  /\ mode = "build"
  /\ \E p \in { [params EXCEPT !.mass = m] : m \in Masses }
           \cup { [params EXCEPT !.metallicity = z] : z \in Metallicities }
           \cup { [params EXCEPT !.cnoFraction = c] : c \in CnoFractions } :
       /\ p # params
       /\ params' = p
       /\ initial' = computeInitialStar(p)
  /\ UNCHANGED << mode, timeline, tQuery, state, runner, swipe >>

\* onLaunchSimulation: SimulationRunner mounts, its useMemo builds the
\* timeline and the first render samples it at 0
launchSimulation ==
  /\ mode = "build"
  /\ mode' = "simulation"
  /\ timeline' = computeEvolutionTimeline(params)
  /\ tQuery' = 0
  /\ state' = getStarStateAtTime(params, timeline', 0)
  /\ UNCHANGED << params, initial, runner, swipe >>

\* a direct caller samples a timeline of its own making
directCall ==
  /\ mode = "build"
  /\ \E tl \in HandTimelines(initial) :
       /\ timeline' = tl
       /\ state' = getStarStateAtTime(params, tl, 0)
  /\ mode' = "direct"
  /\ tQuery' = 0
  /\ UNCHANGED << params, initial, runner, swipe >>

\* the next call of getStarStateAtTime: the query time moves to the next
\* time of the grid
Advance ==
  /\ mode # "build"
  /\ \E t \in QueryTimes(timeline) :
       /\ t > tQuery
       /\ \A u \in QueryTimes(timeline) : u > tQuery => t <= u
       /\ tQuery' = t
       /\ state' = getStarStateAtTime(params, timeline, t)
  /\ UNCHANGED << mode, params, initial, timeline, runner, swipe >>

\* at the end of the grid the caller starts over from its least time
Rewind ==
  /\ mode # "build"
  /\ \A u \in QueryTimes(timeline) : u <= tQuery
  /\ tQuery' = -OverShoot
  /\ state' = getStarStateAtTime(params, timeline, -OverShoot)
  /\ UNCHANGED << mode, params, initial, timeline, runner, swipe >>

\* back to the build screen: the simulation is unmounted
backToBuild ==
  /\ mode # "build"
  /\ mode' = "build"
  /\ timeline' = NoTimeline
  /\ tQuery' = 0
  /\ state' = NoState
  /\ UNCHANGED << params, initial, runner, swipe >>

Next ==
  \/ updateParam
  \/ launchSimulation
  \/ directCall
  \/ Advance
  \/ Rewind
  \/ backToBuild

Spec == Init /\ [][Next]_vars

\* the timeline held is the one SimulationRunner built for the params held
Built == mode = "simulation"

\* a timeline is held and the state is the sampler's answer for tQuery
Sampled == mode # "build"

\* the keypoint table the sampler rebuilt for the last query
shapesHeld == buildPhaseShapes(params, initial, timeline.remnant)

\* lg of the clamped relative metallicity of the params held
ZrelHeld == Lg(Z_relOf(clamp(params.metallicity, 0, 400)))

\* the clamped time of the last query
tClamped == clampTime(tQuery, timeline.totalLifetimeMyr)

(***************************************************************************)
(* SimulationRunner.tsx: the countdown and the auto-play loop.  The        *)
(* component's state is one record; its two effects, the countdown timer   *)
(* and the animation frame are separate steps, since React runs effects    *)
(* after the commit and the browser may fire a timer or a frame in         *)
(* between.  params and the timeline do not change while the runner is     *)
(* mounted (App changes params on the build screen only).  Elapsed times   *)
(* are whole seconds.                                                      *)
(***************************************************************************)
\* Visual playback speed per phase
getPhaseSpeedMultiplier(phaseId) ==
  CASE phaseId = "ms"          -> 2
    [] phaseId = "subgiant"    -> 3
    [] phaseId = "rgb"         -> 12
    [] phaseId = "heBurn"      -> 8
    [] phaseId = "agb"         -> 4
    [] phaseId = "preCollapse" -> 1
    [] phaseId = "wdFinal"     -> 2
    [] phaseId = "nsFinal"     -> 3
    [] phaseId = "bhFinal"     -> 3
    [] OTHER                   -> 1

\* the phase ids that have a case of their own in getPhaseSpeedMultiplier
explicitSpeedCases ==
  { "ms", "subgiant", "rgb", "heBurn", "agb", "preCollapse",
    "wdFinal", "nsFinal", "bhFinal" }

\* anchor positions on the HR diagram for the remnants, lg
getRemnantAnchor(rem) ==
  IF rem = "wd" THEN [logT |-> 3700000, logL |-> -3000000]
  ELSE IF rem = "ns" THEN [logT |-> 4500000, logL |-> -1500000]
  ELSE [logT |-> 3500000, logL |-> -4400000]

\* the HR point of a sampled state, sliding to the anchor in the final phase
hrPointOf(s) ==
  LET logT_phys == Max(s.T_eff, 0)
      logL_phys == Max(s.L, -4 * Dex)
      isFinalPhaseSample ==
        s.phaseId = "wdFinal" \/ s.phaseId = "nsFinal" \/ s.phaseId = "bhFinal"
      f      == clamp(DivFix(s.phaseFrac - 300000, 700000), 0, U)
      target == getRemnantAnchor(s.remnant)
  IN  IF isFinalPhaseSample
      THEN [ logT |-> MulFix(logT_phys, U - f) + MulFix(target.logT, f),
             logL |-> MulFix(logL_phys, U - f) + MulFix(target.logL, f),
             isCollapse |-> f > 0 ]
      ELSE [ logT |-> logT_phys, logL |-> logL_phys, isCollapse |-> FALSE ]

\* how many track points are counted
MaxTrackPoints == 3

\* trackPoints: the number of points (counted up to MaxTrackPoints) and the last
NoTrack == [n |-> 0, last |-> [logT |-> 0, logL |-> 0, isCollapse |-> FALSE]]

\* setTrackPoints in the loop: a point closer than 0.01 to the last is skipped
appendTrackPoint(prevTrack, nextPoint) ==
  IF /\ prevTrack.n > 0
     /\ Abs(nextPoint.logT - prevTrack.last.logT) < 10000
     /\ Abs(nextPoint.logL - prevTrack.last.logL) < 10000
  THEN prevTrack
  ELSE [n |-> Min(prevTrack.n + 1, MaxTrackPoints), last |-> nextPoint]

\* variant: the countdown is taken as over one second early
countdownOverAtOne(countdown) == countdown <= 1

\* the countdown is over
countdownOver(countdown) == countdown <= 0

\* variant: the time wraps around at the end of the lifetime
timeAfterFrameLooping(nextRaw, totalLifetime) == nextRaw % totalLifetime

\* the new timeMyr of a frame
timeAfterFrame(nextRaw, totalLifetime) ==
  IF nextRaw >= totalLifetime THEN totalLifetime ELSE Min(nextRaw, totalLifetime)

\* variant: the end is tested on the clamped time, with a strict comparison
frameFinishesClamped(nextRaw, totalLifetime) ==
  Min(nextRaw, totalLifetime) > totalLifetime

\* the frame reaches the end of the lifetime
frameFinishes(nextRaw, totalLifetime) == nextRaw >= totalLifetime

\* prev + dtSec * rateThisPhase
nextRawOf(prev, dtSec, totalLifetime, phaseId) ==
  LET baseDurationSec   == 25
      baseRateMyrPerSec == totalLifetime \div baseDurationSec
      rateThisPhase     == baseRateMyrPerSec \div getPhaseSpeedMultiplier(phaseId)
  IN  prev + dtSec * rateThisPhase

\* the masses the runner is mounted with, and the seconds between frames
RunnerMasses == {100, 1000, 3000}
FrameSecs == {0, 1, 300}

\* the component right after its first render: the useState defaults, and
\* both effects still to run
mountedRunner ==
  [ mounted |-> TRUE, timeMyr |-> 0, hasStarted |-> FALSE, countdown |-> 3,
    hasFinished |-> FALSE, trackPoints |-> NoTrack,
    timers |-> 0, frames |-> 0,
    countdownEffectDue |-> TRUE, autoPlayEffectDue |-> TRUE ]

InitRunner ==
  /\ mode = "simulation"
  /\ params \in { StarParams(m, defaultParams.metallicity, defaultParams.cnoFraction) :
                    m \in RunnerMasses }
  /\ initial = computeInitialStar(params)
  /\ timeline = computeEvolutionTimeline(params)
  /\ tQuery = 0
  /\ state = getStarStateAtTime(params, timeline, 0)
  /\ runner = mountedRunner
  /\ swipe = NoSwipe

\* the 1-second timer fires: setCountdown(c => c - 1)
countdownTimer ==
  /\ runner.mounted
  /\ runner.timers > 0
  /\ runner' = [runner EXCEPT !.timers = @ - 1, !.countdown = @ - 1,
                              !.countdownEffectDue = TRUE]
  /\ UNCHANGED << mode, params, initial, timeline, tQuery, state, swipe >>

\* effect 3, after its clean-up (clearTimeout): at the end of the countdown it
\* starts the playback, otherwise it arms the timer
countdownEffect ==
  /\ runner.mounted
  /\ runner.countdownEffectDue
  /\ IF runner.hasStarted \/ runner.hasFinished
     THEN /\ runner' = [runner EXCEPT !.timers = 0, !.countdownEffectDue = FALSE]
          /\ UNCHANGED << tQuery, state >>
     ELSE IF countdownOver(runner.countdown)
     THEN /\ runner' = [runner EXCEPT
                          !.timers = 0,
                          !.timeMyr = IF @ = 0
                                      THEN RoundDiv(timeline.totalLifetimeMyr, 100)
                                      ELSE @,
                          !.hasStarted = TRUE,
                          !.trackPoints = NoTrack,
                          !.countdownEffectDue = TRUE,
                          !.autoPlayEffectDue = TRUE]
          /\ tQuery' = runner'.timeMyr
          /\ state' = getStarStateAtTime(params, timeline, runner'.timeMyr)
     ELSE /\ runner' = [runner EXCEPT !.timers = 1, !.countdownEffectDue = FALSE]
          /\ UNCHANGED << tQuery, state >>
  /\ UNCHANGED << mode, params, initial, timeline, swipe >>

\* effect 4, after its clean-up (cancelAnimationFrame): it requests the first
\* frame when the playback has started and has not finished
autoPlayEffect ==
  /\ runner.mounted
  /\ runner.autoPlayEffectDue
  /\ runner' = [runner EXCEPT
                  !.frames = IF runner.hasStarted /\ ~runner.hasFinished THEN 1 ELSE 0,
                  !.autoPlayEffectDue = FALSE]
  /\ UNCHANGED << mode, params, initial, timeline, tQuery, state, swipe >>

\* the updater of setTimeMyr in one animation frame, dtSec after the last:
\* the runner after it (with the next frame requested), and the state s that
\* the updater sampled at the clamped time
runnerAfterFrame(r, dtSec) ==
  With(getStarStateAtTime(params, timeline, r.timeMyr), LAMBDA prevState :
    With(nextRawOf(r.timeMyr, dtSec, timeline.totalLifetimeMyr,
                   prevState.phaseId), LAMBDA nextRaw :
      With(getStarStateAtTime(params, timeline,
                              Min(nextRaw, timeline.totalLifetimeMyr)), LAMBDA s :
        [ s |-> s,
          clamped |-> Min(nextRaw, timeline.totalLifetimeMyr),
          finishes |-> frameFinishes(nextRaw, timeline.totalLifetimeMyr),
          runner |->
            IF frameFinishes(nextRaw, timeline.totalLifetimeMyr)
            THEN [r EXCEPT
                    !.trackPoints = appendTrackPoint(@, hrPointOf(s)),
                    !.timeMyr = timeAfterFrame(nextRaw, timeline.totalLifetimeMyr),
                    !.frames = 1,
                    !.countdownEffectDue = @ \/ ~r.hasFinished,
                    !.autoPlayEffectDue = @ \/ ~r.hasFinished,
                    !.hasFinished = TRUE]
            ELSE [r EXCEPT
                    !.trackPoints = appendTrackPoint(@, hrPointOf(s)),
                    !.timeMyr = timeAfterFrame(nextRaw, timeline.totalLifetimeMyr),
                    !.frames = 1] ])))

\* one animation frame and the render that follows it.  On the finishing
\* frame React runs the updater either at once (cancelAnimationFrame then
\* hits the frame that is running, and the next one stays requested) or at
\* the next render (it then cancels the frame just requested).  The render
\* samples physicalState at the new timeMyr, which is s when that is the
\* clamped time.
loopFrame(dtSec) ==
  /\ runner.mounted
  /\ runner.frames > 0
  /\ \E after \in { runnerAfterFrame(runner, dtSec) } :
       /\ \E eager \in (IF after.finishes THEN BOOLEAN ELSE {TRUE}) :
            runner' = [after.runner EXCEPT !.frames = IF eager THEN 1 ELSE 0]
       /\ tQuery' = after.runner.timeMyr
       /\ state' = IF after.runner.timeMyr = after.clamped
                   THEN after.s
                   ELSE getStarStateAtTime(params, timeline, after.runner.timeMyr)
  /\ UNCHANGED << mode, params, initial, timeline, swipe >>

\* a frame with any elapsed time
loop == \E dtSec \in FrameSecs : loopFrame(dtSec)

\* a frame with positive elapsed time
loopElapsed == \E dtSec \in FrameSecs \ {0} : loopFrame(dtSec)

NextRunner ==
  \/ countdownTimer
  \/ countdownEffect
  \/ autoPlayEffect
  \/ loop

SpecRunner == InitRunner /\ [][NextRunner]_vars

\* React runs a due auto-play effect, and frames with positive elapsed time
\* keep coming while one is requested
SpecRunnerFair ==
  /\ SpecRunner
  /\ WF_vars(autoPlayEffect)
  /\ WF_vars(loopElapsed)

(***************************************************************************)
(* SwipeToActivate.tsx: the vertical swipe control of the build screen.    *)
(* Every startDrag registers its own move and end closures on the window;  *)
(* one mousemove/touchmove runs the move of every drag in progress, one    *)
(* mouseup/touchend runs the end of every drag in progress.  The closures  *)
(* of one control are alike, so the drags in progress are counted.  React  *)
(* re-renders before the next event, so startDrag sees the current         *)
(* complete.  Lengths are pixels, the track's top is at 0.                 *)
(***************************************************************************)
THUMB_SIZE == 70
TRACK_PADDING == 5

\* trackRect.height, and the clientY values of the pointer
trackHeight == 100
PointerYs == { 3 * k : k \in 0 .. 10 } \cup {22, 23}

\* how many drags can be in progress at once
MaxDrags == 2

maxOffsetOf(height) == height - THUMB_SIZE - TRACK_PADDING * 2

\* the control after its first render; drags, timeouts and calls count the
\* drags in progress, the pending setTimeout callbacks and the invocations
\* of onComplete
mountedSwipe ==
  [ mounted |-> TRUE, offset |-> 0, complete |-> FALSE, offsetRef |-> 0,
    drags |-> 0, timeouts |-> 0, calls |-> 0 ]

InitSwipe ==
  /\ mode = "build"
  /\ params = defaultParams
  /\ initial = computeInitialStar(defaultParams)
  /\ timeline = NoTimeline
  /\ tQuery = 0
  /\ state = NoState
  /\ runner = NoRunner
  /\ swipe = mountedSwipe

\* mousedown or touchstart on the thumb
startDrag ==
  /\ swipe.mounted
  /\ ~swipe.complete
  /\ swipe.drags < MaxDrags
  /\ swipe' = [swipe EXCEPT !.drags = @ + 1]
  /\ UNCHANGED << mode, params, initial, timeline, tQuery, state, runner >>

\* the offset that move computes for a pointer at clientY
clampedOffset(clientY) ==
  LET rawOffset == clientY - 0 - TRACK_PADDING
      maxOffset == maxOffsetOf(trackHeight)
  IN  Min(Max(rawOffset, 0), maxOffset)

\* mousemove or touchmove on the window: the move of every drag in progress
move ==
  /\ swipe.drags > 0
  /\ \E clientY \in PointerYs :
       swipe' = [swipe EXCEPT !.offsetRef = clampedOffset(clientY),
                              !.offset = IF swipe.mounted
                                         THEN clampedOffset(clientY) ELSE @]
  /\ UNCHANGED << mode, params, initial, timeline, tQuery, state, runner >>

\* the end closure of one drag
end(sw) ==
  IF ~sw.mounted THEN sw
  ELSE IF 10 * sw.offsetRef >= 9 * maxOffsetOf(trackHeight)
  THEN [sw EXCEPT !.offset = maxOffsetOf(trackHeight),
                  !.offsetRef = maxOffsetOf(trackHeight),
                  !.complete = TRUE,
                  !.timeouts = @ + 1,
                  !.drags = @ - 1]
  ELSE [sw EXCEPT !.offset = 0, !.offsetRef = 0, !.drags = @ - 1]

\* end run n times in a row
RECURSIVE endTimes(_, _)
endTimes(sw, n) == IF n = 0 THEN sw ELSE endTimes(end(sw), n - 1)

\* mouseup or touchend on the window: the end of every drag in progress
release ==
  /\ swipe.drags > 0
  /\ swipe' = endTimes(swipe, swipe.drags)
  /\ UNCHANGED << mode, params, initial, timeline, tQuery, state, runner >>

\* a tab of the header: the build screen and the control are unmounted
leaveBuild ==
  /\ mode = "build"
  /\ swipe.mounted
  /\ mode' = "scoring"
  /\ swipe' = [swipe EXCEPT !.mounted = FALSE]
  /\ UNCHANGED << params, initial, timeline, tQuery, state, runner >>

\* a timeout of end fires: onComplete is onLaunchSimulation, which shows the
\* simulation screen
onComplete ==
  /\ swipe.timeouts > 0
  /\ swipe' = [swipe EXCEPT !.timeouts = @ - 1, !.calls = @ + 1,
                            !.mounted = FALSE]
  /\ IF mode # "simulation"
     THEN /\ mode' = "simulation"
          /\ timeline' = computeEvolutionTimeline(params)
          /\ tQuery' = 0
          /\ state' = getStarStateAtTime(params, timeline', 0)
     ELSE UNCHANGED << mode, timeline, tQuery, state >>
  /\ UNCHANGED << params, initial, runner >>

NextSwipe ==
  \/ startDrag
  \/ move
  \/ release
  \/ leaveBuild
  \/ onComplete

SpecSwipe == InitSwipe /\ [][NextSwipe]_vars

(***************************************************************************)
(* Properties of the timeline and of the sampler.                          *)
(***************************************************************************)

\* two lg numbers agree to Tol micro-dex
Tol == 10^2
Close(a, b) == Abs(a - b) <= Tol

\* the state the sampler gives at the very start of phase i of the timeline
atStartOf(i) ==
  stateInPhase(params, initial, timeline.remnant, timeline.phases[i],
               timeline.phases[i].tStartMyr, state.fracTotal)

\* C1: on a built timeline, at each of the five internal boundaries the L, R
\* and T_eff sampled at the end of phase i (phaseFrac 1) coincide with those
\* at the start of phase i+1 (phaseFrac 0): no jump at ms/subgiant,
\* subgiant/rgb, rgb/hb, hb/agb or agb/terminal, for wd, ns and bh alike.
C1_Continuity ==
  Built =>
    \A i \in 1 .. 5 :
      (tQuery = timeline.phases[i].tEndMyr /\ state.phaseId = timeline.phases[i].id)
        => /\ state.phaseFrac = U
           /\ Close(state.L, atStartOf(i + 1).L)
           /\ Close(state.R, atStartOf(i + 1).R)
           /\ Close(state.T_eff, atStartOf(i + 1).T_eff)

\* C2: the phases of a built timeline partition [0, totalLifetimeMyr]
\* contiguously: no negative duration, tEndMyr = tStartMyr + durationMyr, the
\* first phase starts at 0, each phase ends where the next starts, the last
\* ends at totalLifetimeMyr (the sum of the durations) with fracEnd = 1.
C2_Partition ==
  Built =>
    LET ph == timeline.phases
        n  == Len(ph)
    IN  /\ n > 0
        /\ \A i \in 1 .. n : /\ ph[i].durationMyr >= 0
                             /\ ph[i].tEndMyr = ph[i].tStartMyr + ph[i].durationMyr
        /\ ph[1].tStartMyr = 0
        /\ \A i \in 1 .. n - 1 : ph[i].tEndMyr = ph[i + 1].tStartMyr
        /\ ph[n].tEndMyr = timeline.totalLifetimeMyr
        /\ timeline.totalLifetimeMyr = SumFrom([i \in 1 .. n |-> ph[i].durationMyr], 1, 0)
        /\ ph[n].fracEnd = U

C2_Witness ==
  /\ Built
  /\ timeline.remnant = "ns"
  /\ timeline.phases[6].tStartMyr > timeline.phases[2].tEndMyr
  /\ timeline.phases[6].tEndMyr = timeline.totalLifetimeMyr
  /\ tQuery = timeline.totalLifetimeMyr

C4_SixPhases ==
  Built =>
    /\ Len(timeline.phases) = 6
    /\ [i \in 1 .. 5 |-> timeline.phases[i].id] = << "ms", "subgiant", "rgb", "hb", "agb" >>
    /\ timeline.phases[6].id \in {"wdFinal", "nsFinal", "bhFinal"}
    /\ timeline.phases[6].id = "wdFinal" <=> timeline.remnant = "wd"
    /\ timeline.phases[6].id = "nsFinal" <=> timeline.remnant = "ns"
    /\ timeline.phases[6].id = "bhFinal" <=> timeline.remnant = "bh"

C4_Witness ==
  /\ Built
  /\ timeline.remnant = "bh"
  /\ timeline.phases[6].id = "bhFinal"
  /\ state.phaseId = "bhFinal"

\* C5: a query before 0 returns the state of the query at 0, and a query
\* after totalLifetimeMyr the state of the query at totalLifetimeMyr, field
\* for field, for every timeline.
C5_TimeClamping ==
  Sampled =>
    /\ tQuery < 0 => state = getStarStateAtTime(params, timeline, 0)
    /\ tQuery > timeline.totalLifetimeMyr
         => state = getStarStateAtTime(params, timeline, timeline.totalLifetimeMyr)

C5_Witness ==
  /\ Built
  /\ tQuery > timeline.totalLifetimeMyr
  /\ state.tMyr = timeline.totalLifetimeMyr
  /\ state.phaseFrac = U

C7_SearchSucceeds ==
  Built => findActive(timeline.phases, tClamped, 1) # 0

C7_Witness ==
  /\ Built
  /\ tQuery = timeline.phases[3].tEndMyr
  /\ findActive(timeline.phases, tClamped, 1) = 3
  /\ state.phaseId = "rgb"

\* C8: on any timeline, when no phase contains the clamped time the state
\* carries the id and label of the last phase; when there is no phase at all
\* it is the initial main-sequence state of computeInitialStar(params) with
\* phaseId ms and tMyr, fracTotal, phaseFrac all 0.
C8_Fallbacks ==
  Sampled =>
    LET ph == timeline.phases
        n  == Len(ph)
    IN  /\ (n > 0 /\ findActive(ph, tClamped, 1) = 0)
             => state.phaseId = ph[n].id /\ state.phaseLabel = ph[n].label
        /\ n = 0
             => /\ state.L = initial.L_ms /\ state.R = initial.R_ms
                /\ state.T_eff = initial.T_eff
                /\ state.logL = initial.logL /\ state.logT = initial.logT
                /\ state.phaseId = "ms"
                /\ state.tMyr = 0 /\ state.fracTotal = 0 /\ state.phaseFrac = 0

C8_Witness ==
  /\ mode = "direct"
  /\ Len(timeline.phases) = 2
  /\ timeline.phases[1].id = "ms"
  /\ findActive(timeline.phases, tClamped, 1) = 0
  /\ state.phaseId = "nsFinal"

\* C9: when the active phase has tEndMyr - tStartMyr <= 0 the state has
\* phaseFrac = 0, and when totalLifetimeMyr <= 0 it has fracTotal = 0.
C9_ZeroGuards ==
  Sampled =>
    LET ph == timeline.phases
        i  == activeIndex(ph, tClamped)
    IN  /\ (i # 0 /\ ph[i].tEndMyr - ph[i].tStartMyr <= 0) => state.phaseFrac = 0
        /\ timeline.totalLifetimeMyr <= 0 => state.fracTotal = 0

C9_Witness ==
  /\ mode = "direct"
  /\ timeline.totalLifetimeMyr = 0
  /\ Len(timeline.phases) = 1
  /\ timeline.phases[1].tEndMyr = timeline.phases[1].tStartMyr
  /\ activeIndex(timeline.phases, tClamped) = 1
  /\ state.phaseFrac = 0
  /\ state.fracTotal = 0

\* C10: the composition of the initial state closes: X + Y + Z = 1,
\* Z_cno + Z_other = Z, Y within [0.22, 0.40] and X not negative, for every
\* params, in or out of the clamps.
C10_Composition ==
  /\ initial.X + initial.Y + initial.Z = U
  /\ initial.Z_cno + initial.Z_other = initial.Z
  /\ 220000 <= initial.Y /\ initial.Y <= 400000
  /\ initial.X >= 0

C10_Witness ==
  /\ params.metallicity > 400
  /\ params.cnoFraction > 100
  /\ initial.Z = 40000
  /\ initial.Z_other = 0
  /\ initial.X = 644000

\* the ms phase of the timeline held
msPhase == timeline.phases[1]

\* C12: for mass 30, whatever the metallicity and the CNO fraction, the built
\* timeline has remnant bh and last phase bhFinal, and the state sampled at
\* totalLifetimeMyr is in bhFinal with phaseFrac 1, T_eff within [40000, 90000]
\* K and logL within [5.2, 6.2].
C12_Mass30 ==
  (Built /\ params.mass = 3000) =>
    /\ timeline.remnant = "bh"
    /\ timeline.phases[Len(timeline.phases)].id = "bhFinal"
    /\ tQuery = timeline.totalLifetimeMyr =>
         /\ state.phaseId = "bhFinal"
         /\ state.phaseFrac = U
         /\ Log10Lin(40000, 0) <= state.T_eff /\ state.T_eff <= Log10Lin(90000, 0)
         /\ 5200000 <= state.logL /\ state.logL <= 6200000

C12_Witness ==
  /\ Built
  /\ params.mass = 3000
  /\ params.metallicity = 0
  /\ params.cnoFraction = 150
  /\ tQuery = timeline.totalLifetimeMyr
  /\ state.phaseId = "bhFinal"
  /\ state.logL = 6200000

\* C13 as stated: for mass 0.1 the ms phase of the built timeline lasts
\* 200,000 Myr, the ceiling, at every metallicity and CNO fraction.
C13_Original ==
  (Built /\ clampMass(params.mass) = 10) => msPhase.durationMyr = 20000000

\* C13: for mass 0.1 the ms phase never lasts more than 200,000 Myr; it is at
\* the ceiling for metallicity 0.04 (and above, clamped), and below it,
\* unclamped, at about 198,956 Myr for the default metallicity 0.02.
C13_CeilingAtLowMass ==
  (Built /\ clampMass(params.mass) = 10) =>
    /\ msPhase.durationMyr <= 20000000
    /\ params.metallicity >= 400 => msPhase.durationMyr = 20000000
    /\ params.metallicity = 200 =>
         /\ msPhase.durationMyr >= 19890000
         /\ msPhase.durationMyr <= 19900000

C13_Witness ==
  /\ Built
  /\ params.mass = 10
  /\ params.metallicity = 400
  /\ msPhase.durationMyr = 20000000

\* C14: for the solar parameters (mass 1.0, metallicity 0.02, cnoFraction
\* 0.3) the initial state has Y = 0.282, X = 0.698, L_ms = 1, R_ms = 1 and
\* T_eff = 5772 K, and the built timeline has remnant wd and an ms phase of
\* about 10,000 * 0.698 / 0.70 Myr, between 9,000 and 11,000 Myr.
C14_SolarCalibration ==
  params = defaultParams =>
    /\ initial.Y = 282000
    /\ initial.X = 698000
    /\ Close(initial.L_ms, 0)
    /\ Close(initial.R_ms, 0)
    /\ Close(initial.T_eff, LgT_sun)
    /\ Built =>
         /\ timeline.initial = initial
         /\ timeline.remnant = "wd"
         /\ msPhase.durationMyr >= 900000 /\ msPhase.durationMyr <= 1100000
         /\ Abs(msPhase.durationMyr - 997143) <= Tol

C14_Witness ==
  /\ Built
  /\ params = defaultParams
  /\ timeline.remnant = "wd"
  /\ state.phaseId = "subgiant"

\* the shape keys in their order
shapeOrder == << "ms", "subgiant", "rgb", "hb", "agb", "wd" >>

\* the phase the sampler took as active for the last query is a terminal one
inFinalPhase ==
  /\ activeIndex(timeline.phases, tClamped) # 0
  /\ shapeKeyForPhase(state.phaseId) = "wd"

\* C15: in the keypoint table, for wd, ns and bh alike, the start point of
\* each shape after ms is the end point of the shape before it.
C15_ShapesChain ==
  Sampled =>
    With(shapesHeld, LAMBDA sh :
      \A k \in 1 .. 5 : sh[shapeOrder[k + 1]].start = sh[shapeOrder[k]].end)

\* C16: the sampler never classifies the remnant again: the state's remnant is
\* the timeline's, and the final shape is the one of the timeline's remnant
\* whatever the mass: at the end of a terminal phase a wd timeline gives the
\* cooling track's radius (below 0.1), an ns timeline a red supergiant (radius
\* above 100, T_eff within [3400, 4300] K) and a bh timeline a Wolf-Rayet
\* point (T_eff within [40000, 90000] K).
C16_RemnantFromTimeline ==
  Sampled =>
    /\ state.remnant = timeline.remnant
    /\ (inFinalPhase /\ state.phaseFrac = U) =>
         /\ timeline.remnant = "wd" => state.R < -Dex
         /\ timeline.remnant = "ns" =>
              /\ state.R > 2 * Dex
              /\ Log10Lin(3400, 0) - Tol <= state.T_eff
              /\ state.T_eff <= Log10Lin(4300, 0) + Tol
         /\ timeline.remnant = "bh" =>
              /\ Log10Lin(40000, 0) - Tol <= state.T_eff
              /\ state.T_eff <= Log10Lin(90000, 0) + Tol

C16_Witness ==
  /\ mode = "direct"
  /\ params.mass = 3000
  /\ timeline.remnant = "ns"
  /\ state.remnant = "ns"
  /\ state.phaseId = "nsFinal"
  /\ state.phaseFrac = U
  /\ state.R > 2 * Dex

\* a keypoint obeys L = R^2 * (T_eff / 5772)^4 once its temperature is divided
\* by the factor whose lg is f
StefanBoltzmann(p, f) == Close(p.L, 2 * p.R + 4 * (p.T_eff - f - LgT_sun))

\* C17 as stated: every keypoint of the table, the start and the end of each
\* of the six shapes, satisfies L = R^2 * (T_eff / 5772)^4.
C17_Original ==
  Sampled =>
    With(shapesHeld, LAMBDA sh :
      \A k \in 1 .. 6 : /\ StefanBoltzmann(sh[shapeOrder[k]].start, 0)
                        /\ StefanBoltzmann(sh[shapeOrder[k]].end, 0))

\* C17: the keypoints derived from the relation obey it: the ends of ms,
\* subgiant and hb have T_eff = 5772 * (L / R^2)^0.25 * Zrel^e with e = -0.03,
\* -0.05 and -0.04, and the end of the final shape of an ns or bh timeline has
\* L = R^2 * (T_eff / 5772)^4.
C17_DerivedKeypoints ==
  Sampled =>
    With(shapesHeld, LAMBDA sh :
      /\ StefanBoltzmann(sh["ms"].end, Scale(ZrelHeld, -3, 100))
      /\ StefanBoltzmann(sh["subgiant"].end, Scale(ZrelHeld, -5, 100))
      /\ StefanBoltzmann(sh["hb"].end, Scale(ZrelHeld, -4, 100))
      /\ timeline.remnant \in {"ns", "bh"} => StefanBoltzmann(sh["wd"].end, 0))

C17_Witness ==
  /\ Built
  /\ timeline.remnant = "bh"
  /\ params.metallicity = 0
  /\ state.phaseId = "hb"
  /\ state.phaseFrac = U
  /\ ~StefanBoltzmann(shapesHeld["hb"].end, 0)
  /\ StefanBoltzmann(shapesHeld["wd"].end, 0)

\* C18: the log10 luminosity of the rgb end keypoint is at least 0.8 above
\* the main-sequence logL and at most 5.8, for every params.
C18_RgbTipBounds ==
  Sampled =>
    With(shapesHeld["rgb"].end.L, LAMBDA logL_rgbTip :
      /\ logL_rgbTip >= initial.logL + 800000
      /\ logL_rgbTip <= 5800000)

\* C19: on a built timeline the query at 0 is answered in phase ms with
\* phaseFrac 0 and fracTotal 0, and with the L, R and T_eff of the
\* timeline's initial main-sequence state.
C19_StartsAtInitial ==
  (Built /\ tQuery = 0) =>
    /\ state.phaseId = "ms"
    /\ state.phaseFrac = 0
    /\ state.fracTotal = 0
    /\ state.tMyr = 0
    /\ Close(state.L, timeline.initial.L_ms)
    /\ Close(state.R, timeline.initial.R_ms)
    /\ Close(state.T_eff, timeline.initial.T_eff)

C19_Witness ==
  /\ Built
  /\ tQuery = 0
  /\ params.mass = 200
  /\ params.cnoFraction = 0
  /\ state.phaseId = "ms"
  /\ state.L # shapesHeld["ms"].end.L
  /\ Close(state.L, timeline.initial.L_ms)

\* C20: the ms phase of a built timeline lasts between 3 Myr and 200,000 Myr,
\* and so totalLifetimeMyr is positive, for every params.
C20_LifetimeClamped ==
  Built =>
    /\ msPhase.id = "ms"
    /\ msPhase.durationMyr >= 300
    /\ msPhase.durationMyr <= 20000000
    /\ timeline.totalLifetimeMyr > 0

C20_Witness ==
  /\ Built
  /\ params.mass = 6000
  /\ msPhase.durationMyr = 300
  /\ timeline.totalLifetimeMyr > 300

\* the durations of the phases of the timeline held
dur(i) == timeline.phases[i].durationMyr

\* two durations agree to the rounding of the fixed-point products: a
\* hundred-thousandth of the main-sequence lifetime, and two units
CloseDur(a, b) == Abs(a - b) <= 2 + dur(1) \div 10^5

\* C21: in a built timeline the durations of subgiant, rgb, hb and agb sum to
\* target(u) * t_MS with target(u) = 0.27 + (0.15 - 0.27) * u, so to between
\* 0.15 and 0.27 of the ms duration; each keeps its share of the raw
\* fractions; and a mass below 0.5 gives the fractions of u = 0: 0.05, 0.10,
\* 0.10 and 0.02 of t_MS.
C21_PostMsRenormalised ==
  Built =>
    LET M       == clampMass(params.mass)
        u       == uStructOf(M)
        f       == rawFractions(u)
        rawSum  == f[1] + f[2] + f[3] + f[4]
        postSum == dur(2) + dur(3) + dur(4) + dur(5)
    IN  /\ 0 <= u /\ u <= U
        /\ CloseDur(postSum, MulFix(targetPostFracOf(u), dur(1)))
        /\ MulFix(150000, dur(1)) - 2 <= postSum + dur(1) \div 10^5
        /\ postSum <= MulFix(270000, dur(1)) + 2 + dur(1) \div 10^5
        /\ \A i \in 1 .. 4 :
             CloseDur(MulFix(rawSum, dur(i + 1)), MulFix(f[i], postSum))
        /\ M <= 50 =>
             /\ u = 0
             /\ CloseDur(dur(2), MulFix(50000, dur(1)))
             /\ CloseDur(dur(3), MulFix(100000, dur(1)))
             /\ CloseDur(dur(4), MulFix(100000, dur(1)))
             /\ CloseDur(dur(5), MulFix(20000, dur(1)))

C21_Witness ==
  /\ Built
  /\ params.mass = 6000
  /\ params.metallicity = 400
  /\ uStructOf(clampMass(params.mass)) = U
  /\ CloseDur(dur(2) + dur(3) + dur(4) + dur(5), MulFix(150000, dur(1)))
  /\ dur(5) > 0

\* C22: the terminal phase of a built timeline lasts min(10 * t_MS * M^-0.7,
\* 5 * t_MS), by the same formula for wdFinal, nsFinal and bhFinal: never more
\* than five ms durations, five exactly while 10 * M^-0.7 >= 5 (M <= 2), and
\* 10 * M^-0.7 ms durations above.
C22_TerminalDuration ==
  Built =>
    LET M == clampMass(params.mass)
    IN  /\ dur(6) <= 5 * dur(1)
        /\ dur(6) >= 0
        /\ M <= 200 => dur(6) = 5 * dur(1)
        /\ M >= 300 =>
             CloseDur(dur(6), MulFix(10 * dur(1), Lin(Scale(Log10Lin(M, 2), -7, 10))))
        /\ timeline.phases[6].durationMyr
             = timeline.phases[6].tEndMyr - timeline.phases[6].tStartMyr

C22_Witness ==
  /\ Built
  /\ timeline.remnant = "ns"
  /\ state.phaseId = "nsFinal"
  /\ dur(6) < 5 * dur(1)
  /\ dur(6) > dur(1)

\* C23: below the CNO threshold (mass <= 1.3) the cnoFraction has no effect
\* but on Z_cno and Z_other: the initial state has the same X, Y, Z, L_ms,
\* R_ms, T_eff, logL and logT, and the built timeline the same durations, as
\* for any other cnoFraction with the same mass and metallicity.
C23_CnoNonInterference ==
  (params.mass <= 130 /\ tQuery = 0 /\ mode # "direct") =>
    \A c \in CnoFractions :
      LET other == [params EXCEPT !.cnoFraction = c]
      IN  /\ With(computeInitialStar(other), LAMBDA o :
                /\ o.X = initial.X /\ o.Y = initial.Y /\ o.Z = initial.Z
                /\ o.L_ms = initial.L_ms /\ o.R_ms = initial.R_ms
                /\ o.T_eff = initial.T_eff
                /\ o.logL = initial.logL /\ o.logT = initial.logT)
          /\ Built =>
               With(computeEvolutionTimeline(other), LAMBDA tl :
                 /\ tl.totalLifetimeMyr = timeline.totalLifetimeMyr
                 /\ \A i \in 1 .. 6 : tl.phases[i].durationMyr = dur(i))

C23_Witness ==
  /\ Built
  /\ tQuery = 0
  /\ params.mass = 130
  /\ params.cnoFraction = 150
  /\ initial.Z_cno # computeInitialStar(defaultParams).Z_cno
  /\ initial.Z_other = 0

\* C24: on a built timeline a query exactly at an internal boundary is
\* answered in the earlier phase with phaseFrac 1, and a phase after the
\* first is reported only for times strictly after its start.
C24_BoundaryGoesToEarlier ==
  Built =>
    \A i \in 1 .. 5 :
      /\ tQuery = timeline.phases[i].tEndMyr
           => /\ timeline.phases[i + 1].tStartMyr = tQuery
              /\ state.phaseId = timeline.phases[i].id
              /\ state.phaseFrac = U
      /\ state.phaseId = timeline.phases[i + 1].id
           => tClamped > timeline.phases[i + 1].tStartMyr

C24_Witness ==
  /\ Built
  /\ tQuery = timeline.phases[4].tEndMyr
  /\ tQuery = timeline.phases[5].tStartMyr
  /\ state.phaseId = "hb"
  /\ state.phaseFrac = U

\* the place of a phase id in the order ms, subgiant, rgb, hb, agb, terminal
phaseRank(id) ==
  CASE id = "ms" -> 1 [] id = "subgiant" -> 2 [] id = "rgb" -> 3
    [] id = "hb" -> 4 [] id = "agb" -> 5 [] OTHER -> 6

\* C25: on a built timeline, from one query to a later one the reported
\* phase never goes back in the order ms, subgiant, rgb, hb, agb, terminal,
\* and fracTotal never decreases.
C25_MonotoneProgression ==
  [][ (Built /\ mode' = mode /\ timeline' = timeline /\ tQuery' >= tQuery)
        => /\ phaseRank(state'.phaseId) >= phaseRank(state.phaseId)
           /\ state'.fracTotal >= state.fracTotal ]_vars

C25_Witness ==
  /\ Built
  /\ tQuery > timeline.phases[5].tStartMyr
  /\ tQuery < timeline.phases[5].tEndMyr
  /\ state.phaseId = "agb"
  /\ state.fracTotal > 0
  /\ state.fracTotal < U

C27_StartProtocol ==
  /\ [](runner.mounted =>
          /\ runner.countdown \in 0..3
          /\ runner.timers \in 0..1
          /\ (runner.hasStarted => runner.countdown = 0)
          /\ (~runner.hasStarted => runner.timeMyr = 0))
  /\ [][ /\ (runner'.countdown # runner.countdown =>
               /\ runner'.countdown = runner.countdown - 1
               /\ runner.timers = 1
               /\ runner'.timers = 0)
         /\ (~runner.hasStarted /\ runner'.hasStarted =>
               /\ runner.countdown = 0
               /\ runner'.timeMyr = RoundDiv(timeline.totalLifetimeMyr, 100)
               /\ runner'.trackPoints = NoTrack) ]_vars

\* the countdown has run out and the playback has just started at 1%
C27_Witness ==
  /\ runner.mounted
  /\ runner.hasStarted
  /\ ~runner.hasFinished
  /\ runner.countdown = 0
  /\ runner.timeMyr = RoundDiv(timeline.totalLifetimeMyr, 100)
  /\ runner.timeMyr > 0
  /\ runner.trackPoints.n = 0

\* C28: once hasStarted is true and frames keep firing with positive elapsed
\* time, timeMyr reaches the total lifetime and hasFinished becomes true
C28_PlaybackTerminates ==
  (runner.mounted /\ runner.hasStarted)
    ~> (runner.hasFinished /\ runner.timeMyr = timeline.totalLifetimeMyr)

\* the playback has finished and no frame is requested any more
C28_Witness ==
  /\ runner.mounted
  /\ runner.hasStarted
  /\ runner.hasFinished
  /\ runner.frames = 0
  /\ ~runner.autoPlayEffectDue

\* C29: every phase id of a built timeline has a case of its own in
\* getPhaseSpeedMultiplier, so during playback no phase falls through to
\* the default multiplier
C29_EveryPhaseHasACase ==
  runner.mounted =>
    /\ \A i \in 1..Len(timeline.phases) :
         timeline.phases[i].id \in explicitSpeedCases
    /\ (runner.hasStarted /\ ~runner.hasFinished =>
          state.phaseId \in explicitSpeedCases)

(***************************************************************************)
(* Property of the swipe control, under SpecSwipe                          *)
(***************************************************************************)
\* C30: onComplete is invoked at most once per mounted control, only after
\* a release at or beyond 90% of the maximum offset and only through the
\* delayed timeout, whatever the interleaving of start, move and end events,
\* two drags started before the first one ends included
C30_OnCompleteAtMostOnce ==
  /\ swipe.calls <= 1
  /\ (swipe.calls > 0 \/ swipe.timeouts > 0 => swipe.complete)

=============================================================================
